---- MODULE Spec2Model ----
(***************************************************************************)
(* Model of the codecrafters DNS server: the UDP request/response loop,    *)
(* the header codec (parseHeader, BuildHeader, BuildFlags) and the section *)
(* codec (BuildQuestion, BuildAnswer).                                     *)
(*                                                                         *)
(* Two revisions of the program are in the repository.  The one with       *)
(* parseHeader keeps the source's names; the definitions of src/app/main.go*)
(* that differ from it carry the prefix App_.                              *)
(*                                                                         *)
(* Bytes are integers 0..255, a []byte or a Go string is a sequence of     *)
(* bytes (the conversions between the two copy the bytes unchanged).       *)
(***************************************************************************)
EXTENDS Integers, Sequences, FiniteSets, TLC

VARIABLES
    sliceCap,   \* how the build sizes the backing array of []byte(string)
    run,        \* "listening", "stopped" (receive error, loop left), "panicked"
    bufPrefix,  \* main's receive buffer without its trailing zero bytes
    size,       \* size returned by the last ReadFromUDP
    source,     \* source address returned by the last ReadFromUDP
    received,   \* whether ReadFromUDP has delivered a datagram yet
    req,        \* the datagram the last ReadFromUDP delivered
    response,   \* the bytes handed to the last WriteToUDP (None if none)
    dest,       \* the address handed to the last WriteToUDP (its error is only printed)
    op,         \* codec harness: the function last called
    arg,        \* codec harness: its argument
    ret,        \* codec harness: its result
    orig        \* codec harness: the header whose encoding is in ret/arg

vars == <<sliceCap, run, bufPrefix, size, source, received, req, response, dest,
          op, arg, ret, orig>>

serverVars == <<run, bufPrefix, size, source, received, req, response, dest>>
codecVars == <<op, arg, ret, orig>>

\* no response, no value
None == [none |-> TRUE]
\* no address
NoAddr == "none"
\* the outcome of a call that panics (slice bounds out of range)
Panic == [panic |-> TRUE]

-----------------------------------------------------------------------------
(* Bounds of the model *)

\* longest datagram a client sends (12 header bytes and what follows)
MaxLen == 13

-----------------------------------------------------------------------------
(* Integer helpers: fixed-width arithmetic of Go's uint8/uint16/uint32 *)

Min(a, b) == IF a < b THEN a ELSE b

Max(a, b) == IF a > b THEN a ELSE b

RECURSIVE BitOr(_, _)
BitOr(a, b) ==
    IF a = 0 THEN b
    ELSE IF b = 0 THEN a
    ELSE (IF a % 2 = 1 \/ b % 2 = 1 THEN 1 ELSE 0) + 2 * BitOr(a \div 2, b \div 2)

RECURSIVE BitAnd(_, _)
BitAnd(a, b) ==
    IF a = 0 \/ b = 0 THEN 0
    ELSE (IF a % 2 = 1 /\ b % 2 = 1 THEN 1 ELSE 0) + 2 * BitAnd(a \div 2, b \div 2)

RECURSIVE Pow2(_)
Pow2(n) == IF n = 0 THEN 1 ELSE 2 * Pow2(n - 1)

\* conversion to uint16 keeps the low 16 bits
Uint16(x) == x % 65536

\* x << n on a uint16
Shl16(x, n) == (x * Pow2(n)) % 65536

\* x >> n on an unsigned value
Shr(x, n) == x \div Pow2(n)

\* binary.BigEndian.Uint16 of a two-byte slice
BigEndianUint16(b) == b[1] * 256 + b[2]

\* binary.BigEndian.PutUint16 / binary.Write of a uint16
PutUint16(v) == <<(v \div 256) % 256, v % 256>>

\* binary.Write of a uint32, big endian
PutUint32(v) ==
    <<(v \div 16777216) % 256, (v \div 65536) % 256, (v \div 256) % 256, v % 256>>

Zeros(n) == [i \in 1..n |-> 0]

-----------------------------------------------------------------------------
(* Types and constants of the program *)

NOERROR == 0
FORMERR == 1
SERVFAIL == 2
NXDOMAIN == 3
NOTIMP == 4
REFUSED == 5

BufSize == 512
HeaderLen == 12

\* runtime's stack buffer for a non-escaping []byte(string) conversion
TmpBufSize == 32

NewDNSHeader ==
    [Id |-> 0,
     Response |-> FALSE,
     Opcode |-> 0,
     Authoritative_answer |-> FALSE,
     Truncated_message |-> FALSE,
     Recursion_desired |-> FALSE,
     Recursion_available |-> FALSE,
     Z |-> FALSE,
     Rescode |-> NOERROR,
     Questions |-> 0,
     Answers |-> 0,
     Authoritative_entries |-> 0,
     Resource_entries |-> 0,
     Checking_disabled |-> FALSE,
     Authed_data |-> FALSE]

\* "\x0ccodecrafters\x02io\x00"
CodecraftersName ==
    <<12, 99, 111, 100, 101, 99, 114, 97, 102, 116, 101, 114, 115, 2, 105, 111, 0>>

-----------------------------------------------------------------------------
(* []byte(data): length len(data); the capacity is the build's choice.      *)
(* The gc runtime converts a non-escaping string of at most 32 bytes into a *)
(* zeroed 32-byte stack buffer (capacity 32); a build that allocates        *)
(* exactly gives capacity len(data).  A slice expression bd[lo:hi] panics   *)
(* when hi exceeds the capacity, and reads the zero bytes between the       *)
(* length and the capacity otherwise.                                       *)

ByteSliceCap(data) ==
    IF sliceCap = "tmpBuf" /\ Len(data) <= TmpBufSize THEN TmpBufSize
    ELSE Len(data)

ByteSlice(data) ==
    [cap |-> ByteSliceCap(data),
     mem |-> data \o Zeros(ByteSliceCap(data) - Len(data))]

SliceInRange(bd, lo, hi) == lo <= hi /\ hi <= bd.cap

SliceExpr(bd, lo, hi) == SubSeq(bd.mem, lo + 1, hi)

-----------------------------------------------------------------------------
(* Header codec *)

\* BuildFlags with the opcode shifted one bit too far
BuildFlags_OpcodeShift12(header) ==
    LET f0 == IF header.Response THEN 32768 ELSE 0
        f1 == BitOr(f0, Shl16(header.Opcode, 12))
        f2 == IF header.Authoritative_answer THEN BitOr(f1, 1024) ELSE f1
        f3 == IF header.Truncated_message THEN BitOr(f2, 512) ELSE f2
        f4 == IF header.Recursion_desired THEN BitOr(f3, 256) ELSE f3
        f5 == IF header.Recursion_available THEN BitOr(f4, 128) ELSE f4
        f6 == IF header.Z THEN BitOr(f5, Shl16(1, 4)) ELSE BitOr(f5, Shl16(0, 4))
    IN BitOr(f6, Uint16(header.Rescode))

BuildFlags(header) ==
    LET f0 == IF header.Response THEN 32768 ELSE 0
        f1 == BitOr(f0, Shl16(header.Opcode, 11))
        f2 == IF header.Authoritative_answer THEN BitOr(f1, 1024) ELSE f1
        f3 == IF header.Truncated_message THEN BitOr(f2, 512) ELSE f2
        f4 == IF header.Recursion_desired THEN BitOr(f3, 256) ELSE f3
        f5 == IF header.Recursion_available THEN BitOr(f4, 128) ELSE f4
        f6 == IF header.Z THEN BitOr(f5, Shl16(1, 4)) ELSE BitOr(f5, Shl16(0, 4))
    IN BitOr(f6, Uint16(header.Rescode))

BuildHeader(header) ==
    PutUint16(header.Id) \o PutUint16(BuildFlags(header))
        \o PutUint16(header.Questions) \o PutUint16(header.Answers)
        \o Zeros(HeaderLen - 8)

App_BuildHeader(header) ==
    PutUint16(header.Id) \o PutUint16(32768)
        \o PutUint16(header.Questions) \o PutUint16(header.Answers)
        \o Zeros(HeaderLen - 8)

parseHeader(data) ==
    LET bd == ByteSlice(data)
        flags == BigEndianUint16(SliceExpr(bd, 2, 4))
    IN IF ~(SliceInRange(bd, 0, 2) /\ SliceInRange(bd, 4, 6) /\ SliceInRange(bd, 2, 4))
       THEN Panic
       ELSE [NewDNSHeader EXCEPT
                !.Id = BigEndianUint16(SliceExpr(bd, 0, 2)),
                !.Questions = BigEndianUint16(SliceExpr(bd, 4, 6)),
                !.Answers = BigEndianUint16(SliceExpr(bd, 4, 6)),
                !.Response = TRUE,
                !.Authoritative_answer = FALSE,
                !.Truncated_message = FALSE,
                !.Opcode = Shr(BitAnd(flags, 30720), 11) % 256,
                !.Recursion_desired = (BitAnd(flags, 256) # 0),
                !.Recursion_available = FALSE,
                !.Z = FALSE,
                !.Rescode = NOTIMP]

-----------------------------------------------------------------------------
(* Section codec *)

BuildQuestion(question) ==
    question.Name \o PutUint16(question.Type) \o PutUint16(question.Class)

BuildAnswer(r) ==
    r.Name \o PutUint16(r.Type) \o PutUint16(r.Class) \o PutUint32(r.TTL)
        \o PutUint16(r.Len) \o r.Data

FixedQuestion == [Name |-> CodecraftersName, Type |-> 1, Class |-> 1]

FixedAnswer ==
    [Name |-> CodecraftersName, Type |-> 1, Class |-> 1, TTL |-> 60,
     Len |-> 4, Data |-> <<8, 8, 8, 8>>]

-----------------------------------------------------------------------------
(* Request handling *)

HandleReceivedData(data) ==
    LET header == parseHeader(data)
    IN IF header = Panic THEN Panic
       ELSE BuildHeader(header) \o BuildQuestion(FixedQuestion)
                \o BuildAnswer(FixedAnswer)

App_HandleReceivedData(data) ==
    LET header == [NewDNSHeader EXCEPT !.Id = 1234, !.Questions = 1, !.Answers = 1]
    IN App_BuildHeader(header) \o BuildQuestion(FixedQuestion)
            \o BuildAnswer(FixedAnswer)

-----------------------------------------------------------------------------
(* The server loop of main *)

\* buf, all 512 bytes: make([]byte, 512) zeroes it, ReadFromUDP writes its front
buf == bufPrefix \o Zeros(BufSize - Len(bufPrefix))

\* b without its trailing zero bytes
RECURSIVE StripZeros(_)
StripZeros(b) ==
    IF b = <<>> \/ b[Len(b)] # 0 THEN b ELSE StripZeros(SubSeq(b, 1, Len(b) - 1))

\* udpConn.ReadFromUDP(b): copies the datagram into the front of b, cut to len(b)
ReadSize(b, d) == Min(Len(d), Len(b))

ReadFromUDP(b, d) ==
    SubSeq(d, 1, ReadSize(b, d)) \o SubSeq(b, ReadSize(b, d) + 1, Len(b))

\* the loop handing on the whole buffer instead of buf[:size]
ReceivedData_WholeBuffer(b, n) == b

\* receivedData := string(buf[:size])
ReceivedData(b, n) == SubSeq(b, 1, n)

\* one iteration's result for datagram d with receive buffer b: the response
\* bytes, or Panic
LoopBody(b, d) ==
    HandleReceivedData(ReceivedData(ReadFromUDP(b, d), ReadSize(b, d)))

App_LoopBody(b, d) ==
    App_HandleReceivedData(ReceivedData(ReadFromUDP(b, d), ReadSize(b, d)))

-----------------------------------------------------------------------------
(* Inputs *)

\* 04 D2 01 00 00 01 ...: ID 1234, standard query, RD, one question
Pattern1 == <<4, 210, 1, 0, 0, 1, 0, 0, 0, 0, 0, 0>>
\* ID 65535, every flag bit set, opcode 15, answer count 7
Pattern2 == <<255, 255, 255, 255, 0, 1, 0, 7, 0, 0, 0, 0>>
\* opcode 5, AA and TC set, RD clear, RA, Z and the reserved bits set, two questions
Pattern3 == <<255, 255, 46, 245, 0, 2, 0, 0, 0, 0, 0, 0>>

Patterns == {Pattern1, Pattern2, Pattern3}

\* the bytes a client sends after the header
Trailer(n) == [i \in 1..n |-> 12]

\* a datagram one byte longer than the receive buffer
Oversize == Pattern3 \o [i \in 1..(BufSize + 1 - HeaderLen) |-> 255]

\* every prefix of a pattern and its trailer, from the empty datagram on
Datagrams ==
    {SubSeq(p \o Trailer(MaxLen - HeaderLen), 1, n) : p \in Patterns, n \in 0..MaxLen}
        \cup {Oversize}

Sources == {"10.0.0.1:5353", "10.0.0.2:40000"}

-----------------------------------------------------------------------------
(* Actions of the server loop *)

InitBuild == sliceCap \in {"tmpBuf", "exact"}

InitServer ==
    /\ run = "listening"
    /\ bufPrefix = <<>>
    /\ size = 0
    /\ source = NoAddr
    /\ received = FALSE
    /\ req = <<>>
    /\ response = None
    /\ dest = NoAddr

InitCodec ==
    /\ op = "none"
    /\ arg = None
    /\ ret = None
    /\ orig = None

Init == InitBuild /\ InitServer /\ InitCodec

\* one iteration of the for loop in which ReadFromUDP delivers d from src
Iterate(out, d, src) ==
    /\ run = "listening"
    /\ bufPrefix' = StripZeros(SubSeq(ReadFromUDP(buf, d), 1, Max(Len(bufPrefix), ReadSize(buf, d))))
    /\ size' = ReadSize(buf, d)
    /\ source' = src
    /\ received' = TRUE
    /\ req' = d
    /\ IF out = Panic
       THEN /\ run' = "panicked"
            /\ response' = None
            /\ dest' = NoAddr
       ELSE /\ run' = run
            /\ response' = out
            /\ dest' = src
    /\ UNCHANGED <<sliceCap, codecVars>>

Serve == \E d \in Datagrams, src \in Sources :
    Iterate(LoopBody(buf, d), d, src)

App_Serve == \E d \in Datagrams, src \in Sources :
    Iterate(App_LoopBody(buf, d), d, src)

\* ReadFromUDP returns an error: the loop breaks and main returns
ReceiveError ==
    /\ run = "listening"
    /\ run' = "stopped"
    /\ UNCHANGED <<sliceCap, bufPrefix, size, source, received, req, response, dest, codecVars>>

Next == Serve \/ ReceiveError

Spec == Init /\ [][Next]_vars

App_Next == App_Serve \/ ReceiveError

SpecApp == Init /\ [][App_Next]_vars

-----------------------------------------------------------------------------
(* The codec functions called on their own: each behaviour makes one call   *)
(* with an argument drawn from the sets below, and may decode what          *)
(* BuildHeader returned.                                                   *)

Bool8 == [1..8 -> BOOLEAN]

WithFlags(h, f) ==
    [h EXCEPT !.Response = f[1], !.Authoritative_answer = f[2],
              !.Truncated_message = f[3], !.Recursion_desired = f[4],
              !.Recursion_available = f[5], !.Z = f[6],
              !.Checking_disabled = f[7], !.Authed_data = f[8]]

\* every combination of the eight boolean fields
HeadersByFlags ==
    {WithFlags([NewDNSHeader EXCEPT !.Id = 1234, !.Opcode = o, !.Rescode = r], f) :
        f \in Bool8, o \in {0, 15}, r \in {NOERROR, REFUSED}}

CountTuples == {<<0, 0, 0, 0>>, <<1, 0, 0, 0>>, <<1, 1, 0, 0>>, <<258, 2, 3, 4>>}

\* ids, opcodes (a uint8), result codes (an int) and counts, in and out of range
HeadersByFields ==
    {[NewDNSHeader EXCEPT !.Id = i, !.Opcode = o, !.Rescode = r, !.Response = q,
                          !.Questions = c[1], !.Answers = c[2],
                          !.Authoritative_entries = c[3], !.Resource_entries = c[4]] :
        i \in {0, 1234, 65535}, o \in {0, 1, 15, 16, 255},
        r \in {NOERROR, FORMERR, SERVFAIL, NXDOMAIN, NOTIMP, REFUSED, 15, 16, 65536 + 48},
        q \in BOOLEAN, c \in CountTuples}

Headers == HeadersByFlags \cup HeadersByFields

Records ==
    {[Name |-> n, Type |-> t, Class |-> 1, TTL |-> ttl, Len |-> l, Data |-> d] :
        n \in {CodecraftersName, <<0>>, <<1, 97, 0>>},
        t \in {1, 258},
        ttl \in {0, 60, 16909060, 2147483647},
        l \in {0, 3, 4, 258},
        d \in {<<>>, <<8, 8, 8, 8>>, <<1, 2, 3>>}}

Questions ==
    {[Name |-> n, Type |-> t, Class |-> c] :
        n \in {CodecraftersName, <<0>>, <<1, 97, 0>>}, t \in {1, 258}, c \in {1, 255}}

CallBuildHeader == \E h \in Headers :
    /\ op = "none"
    /\ op' = "BuildHeader"
    /\ arg' = h
    /\ ret' = BuildHeader(h)
    /\ orig' = h
    /\ UNCHANGED <<sliceCap, serverVars>>

App_CallBuildHeader == \E h \in Headers :
    /\ op = "none"
    /\ op' = "App_BuildHeader"
    /\ arg' = h
    /\ ret' = App_BuildHeader(h)
    /\ orig' = None
    /\ UNCHANGED <<sliceCap, serverVars>>

\* parseHeader(string(BuildHeader(h))): decode what was just encoded
CallParseEncoded ==
    /\ op = "BuildHeader"
    /\ op' = "parseHeader"
    /\ arg' = ret
    /\ ret' = parseHeader(ret)
    /\ orig' = orig
    /\ UNCHANGED <<sliceCap, serverVars>>

CallParseHeader == \E b \in Datagrams :
    /\ op = "none"
    /\ op' = "parseHeader"
    /\ arg' = b
    /\ ret' = parseHeader(b)
    /\ orig' = None
    /\ UNCHANGED <<sliceCap, serverVars>>

CallBuildAnswer == \E r \in Records :
    /\ op = "none"
    /\ op' = "BuildAnswer"
    /\ arg' = r
    /\ ret' = BuildAnswer(r)
    /\ orig' = None
    /\ UNCHANGED <<sliceCap, serverVars>>

CallBuildQuestion == \E q \in Questions :
    /\ op = "none"
    /\ op' = "BuildQuestion"
    /\ arg' = q
    /\ ret' = BuildQuestion(q)
    /\ orig' = None
    /\ UNCHANGED <<sliceCap, serverVars>>

CodecNext ==
    \/ CallBuildHeader
    \/ App_CallBuildHeader
    \/ CallParseEncoded
    \/ CallParseHeader
    \/ CallBuildAnswer
    \/ CallBuildQuestion

SpecCodec == Init /\ [][CodecNext]_vars

-----------------------------------------------------------------------------
(* Reading a message as a DNS peer reads it, for stating the properties *)

Bit(w, k) == (w \div Pow2(k)) % 2

B2N(b) == IF b THEN 1 ELSE 0

WireUint16(m, off) == m[off + 1] * 256 + m[off + 2]

WireFlags(m) == WireUint16(m, 2)

WireRcode(m) == WireFlags(m) % 16

\* index after the name starting at index i, or 0 if the name runs off the message
RECURSIVE SkipName(_, _)
SkipName(m, i) ==
    IF i = 0 \/ i > Len(m) THEN 0
    ELSE IF m[i] = 0 THEN i + 1
    ELSE SkipName(m, i + 1 + m[i])

\* index after the question entry starting at i: name, type, class
SkipQuestion(m, i) ==
    LET j == SkipName(m, i)
    IN IF j = 0 \/ j + 4 > Len(m) + 1 THEN 0 ELSE j + 4

\* index after the record starting at i: name, type, class, TTL, length, data
SkipRecord(m, i) ==
    LET j == SkipName(m, i)
    IN IF j = 0 \/ j + 10 > Len(m) + 1 THEN 0
       ELSE LET k == j + 10 + WireUint16(m, j + 7)
            IN IF k > Len(m) + 1 THEN 0 ELSE k

RECURSIVE SkipQuestions(_, _, _)
SkipQuestions(m, i, n) ==
    IF n = 0 \/ i = 0 THEN i ELSE SkipQuestions(m, SkipQuestion(m, i), n - 1)

RECURSIVE SkipRecords(_, _, _)
SkipRecords(m, i, n) ==
    IF n = 0 \/ i = 0 THEN i ELSE SkipRecords(m, SkipRecord(m, i), n - 1)

\* the entries announced by the four counts are exactly what follows the header
CountsMatchSections(m) ==
    LET q == SkipQuestions(m, HeaderLen + 1, WireUint16(m, 4))
        a == SkipRecords(m, q, WireUint16(m, 6))
        n == SkipRecords(m, a, WireUint16(m, 8))
        x == SkipRecords(m, n, WireUint16(m, 10))
    IN x = Len(m) + 1

\* the flags word of the layout in the specification: QR 15, Opcode 14-11, AA 10,
\* TC 9, RD 8, RA 7, Z 6, bits 5-4 zero, RCODE 3-0
LayoutFlags(h) ==
    B2N(h.Response) * 32768 + (h.Opcode % 16) * 2048
        + B2N(h.Authoritative_answer) * 1024 + B2N(h.Truncated_message) * 512
        + B2N(h.Recursion_desired) * 256 + B2N(h.Recursion_available) * 128
        + B2N(h.Z) * 64 + (h.Rescode % 16)

TruncatedHeader == [error |-> "TruncatedHeader"]
RecordLengthMismatch == [error |-> "RecordLengthMismatch"]

\* the outcome of the loop for datagram d in a run with no earlier datagram
FirstDatagramOutcome(d) == LoopBody(Zeros(BufSize), d)

-----------------------------------------------------------------------------
(* Properties *)

\* C1: for every received datagram carrying a whole header, bytes 0-1 of the
\* response equal bytes 0-1 of the request (stated of src/app/main.go under
\* SpecApp, where it fails; it holds of the revision with parseHeader under Spec)
C1_ResponseEchoesRequestId ==
    (received /\ Len(req) >= HeaderLen /\ response # None)
        => SubSeq(response, 1, 2) = SubSeq(req, 1, 2)

\* C2: a datagram shorter than the 12-byte header is answered with a response whose
\* result code is FORMERR or SERVFAIL, and the process does not crash
C2_DecodeFailureAnswered ==
    (received /\ Len(req) < HeaderLen)
        => /\ run # "panicked"
           /\ response # None
           /\ WireRcode(response) \in {FORMERR, SERVFAIL}

\* C3: parseHeader on fewer than 12 bytes fails with TruncatedHeader: no panic and
\* no header with the missing fields zero-filled
C3_ShortBufferIsTruncatedHeader ==
    (op = "parseHeader" /\ Len(arg) < HeaderLen) => ret = TruncatedHeader

\* C4: in every response sent for a request that carries a whole header, the four
\* header counts equal the numbers of question, answer, authority and additional
\* entries serialized after the header
C4_CountsEqualSections ==
    (received /\ Len(req) >= HeaderLen /\ response # None)
        => CountsMatchSections(response)

\* C5: decoding the bytes BuildHeader produced for H yields H in every field
C5_HeaderRoundTrip ==
    (op = "parseHeader" /\ orig # None) => ret = orig

\* C6: header encode (BuildHeader of either revision) writes the flags word with
\* every field in its own slot of the layout, bits 5 and 4 zero, and no field
\* spilling into another's bits
C6_FlagsWordLayout ==
    op \in {"BuildHeader", "App_BuildHeader"} => WireFlags(ret) = LayoutFlags(arg)

\* C7: parseHeader of 12 bytes returns each field from its own wire position
\* (04 D2 01 00 00 01 00 00 00 00 00 00 is among the inputs: QR false, Answers 0)
C7_DecodeFieldPositions ==
    (op = "parseHeader" /\ orig = None /\ Len(arg) = HeaderLen)
        => /\ ret # Panic
           /\ ret.Id = WireUint16(arg, 0)
           /\ ret.Response = (Bit(WireFlags(arg), 15) = 1)
           /\ ret.Opcode = (WireFlags(arg) \div 2048) % 16
           /\ ret.Authoritative_answer = (Bit(WireFlags(arg), 10) = 1)
           /\ ret.Truncated_message = (Bit(WireFlags(arg), 9) = 1)
           /\ ret.Recursion_desired = (Bit(WireFlags(arg), 8) = 1)
           /\ ret.Recursion_available = (Bit(WireFlags(arg), 7) = 1)
           /\ ret.Z = (Bit(WireFlags(arg), 6) = 1)
           /\ ret.Rescode = WireFlags(arg) % 16
           /\ ret.Questions = WireUint16(arg, 4)
           /\ ret.Answers = WireUint16(arg, 6)
           /\ ret.Authoritative_entries = WireUint16(arg, 8)
           /\ ret.Resource_entries = WireUint16(arg, 10)

\* C8: BuildAnswer lays a record out as name, type, class, TTL, length, data, of
\* length name + 10 + data, and fails with RecordLengthMismatch when Len is not the
\* number of data bytes
C8_RecordEncodeChecksLength ==
    op = "BuildAnswer"
        => IF arg.Len = Len(arg.Data)
           THEN /\ ret # RecordLengthMismatch
                /\ Len(ret) = Len(arg.Name) + 2 + 2 + 4 + 2 + Len(arg.Data)
                /\ ret = arg.Name \o PutUint16(arg.Type) \o PutUint16(arg.Class)
                            \o PutUint32(arg.TTL) \o PutUint16(arg.Len) \o arg.Data
           ELSE ret = RecordLengthMismatch

\* C9: whatever datagrams came before, the outcome for the datagram just received
\* is the outcome the same datagram has as the first datagram of a run (so any two
\* histories give byte-identical responses), and the response goes to the source
\* address its receive returned
C9_ResponseDependsOnDatagramOnly ==
    received
        => IF FirstDatagramOutcome(req) = Panic
           THEN run = "panicked" /\ response = None
           ELSE /\ run # "panicked"
                /\ response = FirstDatagramOutcome(req)
                /\ dest = source

\* C9 witness: a response was sent for a datagram shorter than the bytes
\* parseHeader reads, while the buffer still holds non-zero bytes of an earlier,
\* longer datagram right behind it
C9_Witness_StaleBytesBehindShortDatagram ==
    /\ received
    /\ response # None
    /\ size < 6
    /\ \E i \in (size + 1)..6 : buf[i] # 0

\* C10: for a request of at least 12 bytes the response flags word is QR=1, the
\* request's opcode, the request's RD, AA=TC=RA=Z=0 and RCODE=NOTIMP, whatever the
\* other bits of the request's flags word are
C10_ResponseFlags ==
    (received /\ Len(req) >= HeaderLen)
        => /\ response # None
           /\ WireFlags(response)
                = 32768 + ((WireFlags(req) \div 2048) % 16) * 2048
                    + Bit(WireFlags(req), 8) * 256 + 4

\* C10 witness: a request with opcode 5, AA, TC, RA, Z and a result code set and RD
\* clear was answered with flags A8 04
C10_Witness_Opcode5Answered ==
    /\ received
    /\ Len(req) >= HeaderLen
    /\ SubSeq(req, 3, 4) = <<46, 245>>
    /\ response # None
    /\ SubSeq(response, 3, 4) = <<168, 4>>

====
